---- MODULE Spec2Model ----
(***************************************************************************)
(* Gopher360: the per-tick loop that maps a controller snapshot to         *)
(* synthesized keyboard and mouse input (src/Windows/Gopher/Gopher.cpp).   *)
(*                                                                         *)
(* A button mask (DWORD) is modelled as the set of its bits, so that       *)
(* (wButtons & STATE) == STATE is STATE \subseteq wButtons and the mask 0  *)
(* is {}.  Floats are modelled in fixed point: cursor positions and        *)
(* displacements in 1/PX pixel, normalised stick values in 1/FX.           *)
(***************************************************************************)
EXTENDS Integers, Sequences, FiniteSets, TLC

VARIABLES
  cfg,                            \* the values loadConfigFile assigns
  env,                            \* the domain the controller snapshots range over
  _currentState,                  \* the snapshot read by GetState
  _disabled, _vibrationDisabled, _hidden,
  _lTriggerPrevious, _rTriggerPrevious,
  _xboxClickIsDown, _xboxClickIsUp, _xboxClickIsDownLong,
  _xboxClickDownLength, _xboxClickStateLastIteration,
  _pressedKeys,
  speed_idx, speed,
  _xRest, _yRest,
  events,                         \* the sink calls of the last tick, in order
  motion,                         \* <<dx, dy>> of the last tick
  calls,                          \* the setXboxClickState calls of the last tick
  held,                           \* per code: down events not yet matched by an up
  obs,                            \* per mask: on how many observations in a row,
                                  \* up to the last one, the button was down
  moves,                          \* the handleMouseMovement calls of the last tick:
                                  \* cursor read, branch taken, position set
  trig                            \* down: the triggers as handleTriggers last saw
                                  \* them; emitted: its events of the last tick

vars == <<cfg, env, _currentState, _disabled, _vibrationDisabled, _hidden,
          _lTriggerPrevious, _rTriggerPrevious,
          _xboxClickIsDown, _xboxClickIsUp, _xboxClickIsDownLong,
          _xboxClickDownLength, _xboxClickStateLastIteration,
          _pressedKeys, speed_idx, speed, _xRest, _yRest,
          events, motion, calls, held, obs, moves, trig>>

----------------------------------------------------------------------------
(* Program constants *)

VK_LBUTTON == 1
VK_RBUTTON == 2
VK_MBUTTON == 4
LONG_PRESS_TIME == 200
MAXSHORT == 32767
FPS == 10
SLEEP_AMOUNT == 1000 \div FPS
TRIGGER_DEAD_ZONE == 0

(* Bounds of the model *)

\* a button is observed down on at most MaxHold consecutive calls
MaxHold == 3

\* the cursor position and its remainders are kept in 1/PX pixel
PX == 4

\* fixed-point scale of the normalised stick value; the multipliers are in
\* 1/(FX*FX), the configured speeds in 1/SPEED_UNIT
FX == 1000
SPEED_UNIT == 10000

\* a configured CURSOR_SPEED holds at most MaxSpeeds entries
MaxSpeeds == 3

----------------------------------------------------------------------------
(* std::map with operator[]: a missing key reads as the value-initialised   *)
(* default and is created by a write.                                       *)

Get(m, k, d) == IF k \in DOMAIN m THEN m[k] ELSE d

Put(m, k, v) == [x \in (DOMAIN m) \cup {k} |-> IF x = k THEN v ELSE m[x]]

EmptyMap == [x \in {} |-> FALSE]

(* multiset of codes as a map code -> count, without zero entries *)

BagAdd(b, c) == Put(b, c, Get(b, c, 0) + 1)

BagRemove(b, c) ==
  IF Get(b, c, 0) <= 1
  THEN [x \in (DOMAIN b) \ {c} |-> b[x]]
  ELSE Put(b, c, b[c] - 1)

RECURSIVE BagOfSeq(_)
BagOfSeq(q) == IF q = <<>> THEN EmptyMap ELSE BagAdd(BagOfSeq(Tail(q)), Head(q))

RECURSIVE BagAddAll(_, _)
BagAddAll(b, q) == IF q = <<>> THEN b ELSE BagAddAll(BagAdd(b, Head(q)), Tail(q))

RECURSIVE BagRemoveAll(_, _)
BagRemoveAll(b, q) == IF q = <<>> THEN b ELSE BagRemoveAll(BagRemove(b, Head(q)), Tail(q))

SeqToSet(q) == {q[i] : i \in 1..Len(q)}

----------------------------------------------------------------------------
(* The output sink.  Every call is appended to events; held counts, per    *)
(* code, the down events that no up event has matched yet.                 *)

Event(op, arg) == [op |-> op, arg |-> arg]

Emit(s, op, arg) == [s EXCEPT !.events = Append(@, Event(op, arg))]

\* inputKeyboard(cmds, 0)
inputKeyboardDown(s, cmds) ==
  [Emit(s, "KEYDOWN", cmds) EXCEPT !.held = BagAddAll(@, cmds)]

\* inputKeyboard(cmds, KEYEVENTF_KEYUP)
inputKeyboardUp(s, cmds) ==
  [Emit(s, "KEYUP", cmds) EXCEPT !.held = BagRemoveAll(@, cmds)]

MouseDownCode(dwFlags) ==
  CASE dwFlags = "LEFTDOWN" -> <<VK_LBUTTON>>
    [] dwFlags = "RIGHTDOWN" -> <<VK_RBUTTON>>
    [] dwFlags = "MIDDLEDOWN" -> <<VK_MBUTTON>>
    [] OTHER -> <<>>

MouseUpCode(dwFlags) ==
  CASE dwFlags = "LEFTUP" -> <<VK_LBUTTON>>
    [] dwFlags = "RIGHTUP" -> <<VK_RBUTTON>>
    [] dwFlags = "MIDDLEUP" -> <<VK_MBUTTON>>
    [] OTHER -> <<>>

\* mouseData is passed on only for the wheel events
mouseEvent(s, dwFlags, mouseData) ==
  LET data == IF dwFlags \in {"WHEEL", "HWHEEL"} THEN mouseData ELSE 0
      t == Emit(s, dwFlags, <<data>>)
  IN [t EXCEPT !.held = BagRemoveAll(BagAddAll(@, MouseDownCode(dwFlags)),
                                     MouseUpCode(dwFlags))]

----------------------------------------------------------------------------
(* ButtonEdgeTracker *)

xboxClickStateExists(s, button) == button \in DOMAIN s._xboxClickStateLastIteration

\* (_currentState.Gamepad.wButtons & STATE) == STATE
ButtonIsDown(s, button) == button \subseteq s._currentState.wButtons

\* mutant: level-triggered
PressDetectedLevel(isDown, last) == isDown

\* isDown && !_xboxClickStateLastIteration[STATE]
PressDetected(isDown, last) == isDown /\ ~last

\* !isDown && _xboxClickStateLastIteration[STATE]
ReleaseDetected(isDown, last) == ~isDown /\ last

\* mutant: a press of exactly the threshold is long
IsLongPressAtThreshold(len) == len * SLEEP_AMOUNT >= LONG_PRESS_TIME

\* _xboxClickDownLength[STATE] * SLEEP_AMOUNT > LONG_PRESS_TIME
IsLongPress(len) == len * SLEEP_AMOUNT > LONG_PRESS_TIME

\* mutant: the release leaves _xboxClickIsDownLong as it is
LongAfterReleaseKept(released, long) == long

\* _xboxClickIsDownLong[STATE] = false in the release branch
LongAfterRelease(released, long) == IF released THEN FALSE ELSE long

setXboxClickState(s, button) ==
  LET last0 == IF xboxClickStateExists(s, button)
               THEN s._xboxClickStateLastIteration[button] ELSE FALSE
      isDown == ButtonIsDown(s, button)
      \* Detect if the button has been pressed.
      pressed == PressDetected(isDown, last0)
      last1 == IF pressed THEN TRUE ELSE last0
      len1 == IF pressed THEN 0 ELSE Get(s._xboxClickDownLength, button, 0)
      long1 == IF pressed THEN FALSE ELSE Get(s._xboxClickIsDownLong, button, FALSE)
      \* Detect if the button has been held as a long press.
      heldNow == isDown /\ last1
      len2 == IF heldNow THEN len1 + 1 ELSE len1
      long2 == IF heldNow /\ IsLongPress(len2) THEN TRUE ELSE long1
      \* Detect if the button has been released.
      released == ReleaseDetected(isDown, last1)
      ticksHeld == IF isDown THEN Get(s.obs, button, 0) + 1 ELSE 0
      long3 == LongAfterRelease(released, long2)
  IN [s EXCEPT
        !._xboxClickIsDown = Put(@, button, pressed),
        !._xboxClickIsUp = Put(@, button, released),
        !._xboxClickDownLength = IF pressed \/ heldNow THEN Put(@, button, len2) ELSE @,
        !._xboxClickIsDownLong = IF pressed \/ heldNow \/ released
                                 THEN Put(@, button, long3) ELSE @,
        !._xboxClickStateLastIteration = Put(@, button, isDown),
        !.calls = Append(@, [button |-> button, raw |-> isDown,
                             prev |-> Get(s.obs, button, 0) > 0,
                             ticksHeld |-> ticksHeld,
                             IsDown |-> pressed, IsUp |-> released,
                             IsDownLong |-> long3, last |-> isDown]),
        !.obs = Put(@, button, ticksHeld)]

----------------------------------------------------------------------------
(* PressedKeySet *)

\* removes the first entry equal to key, if there is one
RECURSIVE EraseFirst(_, _)
EraseFirst(q, key) ==
  IF q = <<>> THEN <<>>
  ELSE IF Head(q) = key THEN Tail(q)
  ELSE <<Head(q)>> \o EraseFirst(Tail(q), key)

erasePressedKey(s, key) == [s EXCEPT !._pressedKeys = EraseFirst(@, key)]

RECURSIVE EraseAll(_, _)
EraseAll(s, keys) ==
  IF keys = <<>> THEN s ELSE EraseAll(erasePressedKey(s, Head(keys)), Tail(keys))

----------------------------------------------------------------------------
(* Vibration *)

\* mutant: the pulse does not look at _vibrationDisabled
pulseVibrateAlways(s, duration, l, r) ==
  Emit(Emit(Emit(s, "Vibrate", <<l, r>>), "Sleep", <<duration>>), "Vibrate", <<0, 0>>)

pulseVibrate(s, duration, l, r) ==
  IF ~s._vibrationDisabled
  THEN Emit(Emit(Emit(s, "Vibrate", <<l, r>>), "Sleep", <<duration>>), "Vibrate", <<0, 0>>)
  ELSE s

handleVibrationButton(s) ==
  LET t == setXboxClickState(s, s.cfg.CONFIG_DISABLE_VIBRATION)
  IN IF t._xboxClickIsDown[s.cfg.CONFIG_DISABLE_VIBRATION]
     THEN Emit([t EXCEPT !._vibrationDisabled = ~@], "Sleep", <<1000>>)
     ELSE t

----------------------------------------------------------------------------
(* Disable toggle *)

\* mutant: the break of a mouse case leaves the while loop as well
RECURSIVE ReleaseAllKeysBreak(_, _)
ReleaseAllKeysBreak(s, keyboardEvents) ==
  IF s._pressedKeys = <<>>
  THEN IF keyboardEvents # <<>> THEN inputKeyboardUp(s, keyboardEvents) ELSE s
  ELSE LET keyEvent == Head(s._pressedKeys)
           popped == [s EXCEPT !._pressedKeys = Tail(@)]
           done(u) == IF keyboardEvents # <<>> THEN inputKeyboardUp(u, keyboardEvents) ELSE u
       IN CASE keyEvent = VK_LBUTTON -> done(mouseEvent(popped, "LEFTUP", 0))
            [] keyEvent = VK_RBUTTON -> done(mouseEvent(popped, "RIGHTUP", 0))
            [] keyEvent = VK_MBUTTON -> done(mouseEvent(popped, "MIDDLEUP", 0))
            [] OTHER -> ReleaseAllKeysBreak(popped, Append(keyboardEvents, keyEvent))

\* mutant: one key-up call per keyboard code
RECURSIVE ReleaseAllKeysUnbatched(_, _)
ReleaseAllKeysUnbatched(s, keyboardEvents) ==
  IF s._pressedKeys = <<>> THEN s
  ELSE LET keyEvent == Head(s._pressedKeys)
           popped == [s EXCEPT !._pressedKeys = Tail(@)]
       IN CASE keyEvent = VK_LBUTTON ->
                 ReleaseAllKeysUnbatched(mouseEvent(popped, "LEFTUP", 0), keyboardEvents)
            [] keyEvent = VK_RBUTTON ->
                 ReleaseAllKeysUnbatched(mouseEvent(popped, "RIGHTUP", 0), keyboardEvents)
            [] keyEvent = VK_MBUTTON ->
                 ReleaseAllKeysUnbatched(mouseEvent(popped, "MIDDLEUP", 0), keyboardEvents)
            [] OTHER ->
                 ReleaseAllKeysUnbatched(inputKeyboardUp(popped, <<keyEvent>>),
                                         keyboardEvents)

\* mutant: a keyboard code is collected at the front of keyboardEvents
RECURSIVE ReleaseAllKeysReversed(_, _)
ReleaseAllKeysReversed(s, keyboardEvents) ==
  IF s._pressedKeys = <<>>
  THEN IF keyboardEvents # <<>> THEN inputKeyboardUp(s, keyboardEvents) ELSE s
  ELSE LET keyEvent == Head(s._pressedKeys)
           popped == [s EXCEPT !._pressedKeys = Tail(@)]
       IN CASE keyEvent = VK_LBUTTON ->
                 ReleaseAllKeysReversed(mouseEvent(popped, "LEFTUP", 0), keyboardEvents)
            [] keyEvent = VK_RBUTTON ->
                 ReleaseAllKeysReversed(mouseEvent(popped, "RIGHTUP", 0), keyboardEvents)
            [] keyEvent = VK_MBUTTON ->
                 ReleaseAllKeysReversed(mouseEvent(popped, "MIDDLEUP", 0), keyboardEvents)
            [] OTHER ->
                 ReleaseAllKeysReversed(popped, <<keyEvent>> \o keyboardEvents)

\* the while loop that empties _pressedKeys: a mouse code is released at
\* once, a keyboard code is collected into keyboardEvents
RECURSIVE ReleaseAllKeys(_, _)
ReleaseAllKeys(s, keyboardEvents) ==
  IF s._pressedKeys = <<>>
  THEN IF keyboardEvents # <<>> THEN inputKeyboardUp(s, keyboardEvents) ELSE s
  ELSE LET keyEvent == Head(s._pressedKeys)
           popped == [s EXCEPT !._pressedKeys = Tail(@)]
       IN CASE keyEvent = VK_LBUTTON ->
                 ReleaseAllKeys(mouseEvent(popped, "LEFTUP", 0), keyboardEvents)
            [] keyEvent = VK_RBUTTON ->
                 ReleaseAllKeys(mouseEvent(popped, "RIGHTUP", 0), keyboardEvents)
            [] keyEvent = VK_MBUTTON ->
                 ReleaseAllKeys(mouseEvent(popped, "MIDDLEUP", 0), keyboardEvents)
            [] OTHER ->
                 ReleaseAllKeys(popped, Append(keyboardEvents, keyEvent))

\* mutant: the toggle fires while the button is down
DisableEdgeLevel(s) == ButtonIsDown(s, s.cfg.CONFIG_DISABLE)

\* the edge on which the toggle fires
DisableEdge(s) == s._xboxClickIsDown[s.cfg.CONFIG_DISABLE]

handleDisableButton(s) ==
  LET t == setXboxClickState(s, s.cfg.CONFIG_DISABLE)
  IN IF DisableEdge(t)
     THEN LET u == [t EXCEPT !._disabled = ~@]
          IN IF u._disabled
             THEN pulseVibrate(ReleaseAllKeys(u, <<>>), 400, 10000, 10000)
             ELSE pulseVibrate(u, 400, 65000, 65000)
     ELSE t

toggleWindowVisibility(s) ==
  LET t == [s EXCEPT !._hidden = ~@]
  IN Emit(t, "ShowWindow", <<IF t._hidden THEN 0 ELSE 1>>)

----------------------------------------------------------------------------
(* Arithmetic *)

Abs(a) == IF a < 0 THEN -a ELSE a

Sign(a) == IF a > 0 THEN 1 ELSE IF a < 0 THEN -1 ELSE 0

\* C++ integer and float-to-int conversion: towards zero
TruncDiv(a, b) == Sign(a) * Sign(b) * (Abs(a) \div Abs(b))

\* a * b / c rounded towards zero, without an intermediate above 2^31
MulDiv(a, b, c) ==
  Sign(a) * Sign(b) * (Abs(a) * (Abs(b) \div c) + (Abs(a) * (Abs(b) % c)) \div c)

MinInt32 == -2147483647 - 1

\* a + b of two non-negative ints in 32-bit signed arithmetic
Int32Add(a, b) == IF a > 2147483647 - b THEN (a + MinInt32) + (b + MinInt32) ELSE a + b

\* int -> float: round to a 24-bit significand, ties to even
RECURSIVE Ulp(_, _)
Ulp(a, p) == IF a \div p < 16777216 THEN p ELSE Ulp(a, 2 * p)

ToFloat(n) ==
  IF n = MinInt32 THEN n
  ELSE LET a == Abs(n)
           p == Ulp(a, 1)
           q == a \div p
           r == a % p
           up == 2 * r > p \/ (2 * r = p /\ q % 2 = 1)
       IN Sign(n) * (IF up THEN q + 1 ELSE q) * p

\* the largest r in lo..hi with r * r <= n
RECURSIVE SqrtSearch(_, _, _)
SqrtSearch(n, lo, hi) ==
  IF lo >= hi THEN lo
  ELSE LET mid == (lo + hi + 1) \div 2
       IN IF mid * mid <= n THEN SqrtSearch(n, mid, hi) ELSE SqrtSearch(n, lo, mid - 1)

ISqrt(n) == SqrtSearch(n, 0, 46340)

\* sqrt(n) in 1/FX, from below
SqrtFX(n) ==
  LET r == ISqrt(n)
  IN r * FX + ((n - r * r) * FX) \div (2 * r + 1)

RECURSIVE PowFX(_, _)
PowFX(n, a) == IF a = 0 THEN FX ELSE TruncDiv(n * PowFX(n, a - 1), FX)

----------------------------------------------------------------------------
(* MotionCurve *)

\* a short always lies in -32768..32767, so neither test fires
getDelta(t) == IF t > 32767 THEN 0 ELSE IF t < -32768 THEN 0 ELSE t

\* sqrtFX: sqrt(lengthsq) in 1/FX; the result is in 1/(FX*FX)
getMult(sqrtFX, deadzone, accel) ==
  LET mult == TruncDiv(sqrtFX - deadzone * FX, MAXSHORT - deadzone)
      curved == IF accel > 0 THEN PowFX(mult, accel) ELSE mult
  IN TruncDiv(curved * FX, FPS)

MaxInt32 == 2147483647

\* float lengthsq = tx * tx + ty * ty, the sum taken in int.  At
\* (-32768, -32768) the sum is 2^31 and overflows, which is undefined: the
\* build either wraps it to -2^31 or carries the exact 2^31 into the float,
\* and 2^31 is stood for by the largest int.
LengthSq(tx, ty, overflow) ==
  IF tx * tx > MaxInt32 - ty * ty
  THEN IF overflow = "wrap" THEN ToFloat(Int32Add(tx * tx, ty * ty)) ELSE MaxInt32
  ELSE ToFloat(tx * tx + ty * ty)

\* mutant: the squared length against the dead zone itself
OutsideDeadZoneUnsquared(lengthsq, deadzone) == lengthsq > ToFloat(deadzone)

\* lengthsq > DEAD_ZONE * DEAD_ZONE
OutsideDeadZone(lengthsq, deadzone) == lengthsq > ToFloat(deadzone * deadzone)

\* the displacement <<dx, dy>> in 1/PX pixel
CursorDelta(s, tx, ty) ==
  LET lengthsq == LengthSq(tx, ty, s.overflow)
  IN IF OutsideDeadZone(lengthsq, s.cfg.DEAD_ZONE)
     THEN LET mult == TruncDiv(s.speed * getMult(SqrtFX(lengthsq), s.cfg.DEAD_ZONE,
                                                 s.cfg.acceleration_factor), SPEED_UNIT)
          IN <<TruncDiv(MulDiv(getDelta(tx), mult, FX) * PX, FX),
               TruncDiv(MulDiv(getDelta(ty), mult, FX) * PX, FX)>>
     ELSE <<0, 0>>

\* mutant: the remainder is dropped
RestDropped(x) == 0

\* x - (float)((int)x), in 1/PX pixel
Rest(x) == x - TruncDiv(x, PX) * PX

handleMouseMovement(s, cursor) ==
  LET g == s._currentState
      tx == IF s.cfg.SWAP_THUMBSTICKS = 0 THEN g.sThumbLX ELSE g.sThumbRX
      ty == IF s.cfg.SWAP_THUMBSTICKS = 0 THEN g.sThumbLY ELSE g.sThumbRY
      d == CursorDelta(s, tx, ty)
      x == cursor[1] * PX + s._xRest + d[1]
      y == cursor[2] * PX + s._yRest - d[2]
      t == [s EXCEPT !._xRest = Rest(x),
                     !._yRest = Rest(y),
                     !.motion = d,
                     !.moves = Append(@, [cursor |-> cursor,
                                          taken |-> OutsideDeadZone(
                                                      LengthSq(tx, ty, s.overflow),
                                                      s.cfg.DEAD_ZONE),
                                          set |-> <<TruncDiv(x, PX), TruncDiv(y, PX)>>])]
  IN Emit(t, "SetCursorPos", <<TruncDiv(x, PX), TruncDiv(y, PX)>>)

\* sqrt(tx * tx + ty * ty) in float arithmetic, in 1/FX
Magnitude(tx, ty) ==
  IF Abs(tx) = 32768 /\ Abs(ty) = 32768 THEN 46340950 ELSE SqrtFX(tx * tx + ty * ty)

\* magnitude > SCROLL_DEAD_ZONE
OutsideScrollDeadZone(magnitude, deadzone) == magnitude > deadzone * FX

\* one wheel amount: t * getMult(t * t, SCROLL_DEAD_ZONE) * SCROLL_SPEED
ScrollAmount(s, t) ==
  TruncDiv(MulDiv(t, TruncDiv(getMult(Abs(t) * FX, s.cfg.SCROLL_DEAD_ZONE, 0)
                                * s.cfg.SCROLL_SPEED, SPEED_UNIT), FX), FX)

handleScrolling(s) ==
  LET g == s._currentState
      tx == getDelta(IF s.cfg.SWAP_THUMBSTICKS = 0 THEN g.sThumbRX ELSE g.sThumbLX)
      ty == getDelta(IF s.cfg.SWAP_THUMBSTICKS = 0 THEN g.sThumbRY ELSE g.sThumbLY)
  IN IF OutsideScrollDeadZone(Magnitude(tx, ty), s.cfg.SCROLL_DEAD_ZONE)
     THEN mouseEvent(mouseEvent(s, "HWHEEL", ScrollAmount(s, tx)),
                     "WHEEL", ScrollAmount(s, ty))
     ELSE s

----------------------------------------------------------------------------
(* InputMapper *)

\* mutant: a trigger at the dead zone counts as down
TriggerIsDownInclusive(b) == b >= TRIGGER_DEAD_ZONE

TriggerIsDown(b) == b > TRIGGER_DEAD_ZONE

\* an event of handleTriggers, noted in trig.emitted as it is sent
TriggerEvent(s, side, op, key) ==
  [(IF op = "KEYDOWN" THEN inputKeyboardDown(s, key) ELSE inputKeyboardUp(s, key))
     EXCEPT !.trig.emitted = Append(@, <<side, op, key>>)]

handleTriggers(s, lKey, rKey) ==
  LET lTriggerIsDown == TriggerIsDown(s._currentState.bLeftTrigger)
      rTriggerIsDown == TriggerIsDown(s._currentState.bRightTrigger)
      l == IF lTriggerIsDown # s._lTriggerPrevious
           THEN LET t == [s EXCEPT !._lTriggerPrevious = lTriggerIsDown]
                IN IF lTriggerIsDown THEN TriggerEvent(t, "L", "KEYDOWN", lKey)
                                     ELSE TriggerEvent(t, "L", "KEYUP", lKey)
           ELSE s
      r == IF rTriggerIsDown # l._rTriggerPrevious
           THEN LET t == [l EXCEPT !._rTriggerPrevious = rTriggerIsDown]
                IN IF rTriggerIsDown THEN TriggerEvent(t, "R", "KEYDOWN", rKey)
                                     ELSE TriggerEvent(t, "R", "KEYUP", rKey)
           ELSE l
  IN [r EXCEPT !.trig.down = <<s._currentState.bLeftTrigger > TRIGGER_DEAD_ZONE,
                               s._currentState.bRightTrigger > TRIGGER_DEAD_ZONE>>]

mapKeyboard(s, button, keys) ==
  LET t == setXboxClickState(s, button)
      d == IF t._xboxClickIsDown[button]
           THEN [inputKeyboardDown(t, keys) EXCEPT !._pressedKeys = @ \o keys]
           ELSE t
  IN IF d._xboxClickIsUp[button]
     THEN EraseAll(inputKeyboardUp(d, keys), keys)
     ELSE d

mapMouseClick(s, button, keyDown, keyUp) ==
  LET t == setXboxClickState(s, button)
      d == IF t._xboxClickIsDown[button]
           THEN [mouseEvent(t, keyDown, 0) EXCEPT !._pressedKeys = @ \o MouseDownCode(keyDown)]
           ELSE t
  IN IF d._xboxClickIsUp[button]
     THEN EraseAll(mouseEvent(d, keyUp, 0), MouseUpCode(keyUp))
     ELSE d

----------------------------------------------------------------------------
(* GopherLoop *)

\* the buttons of the mapKeyboard calls, in the order loop() makes them
XINPUT_GAMEPAD ==
  <<"DPAD_UP", "DPAD_DOWN", "DPAD_LEFT", "DPAD_RIGHT", "START", "BACK",
    "LEFT_THUMB", "RIGHT_THUMB", "LEFT_SHOULDER", "RIGHT_SHOULDER",
    "A", "B", "X", "Y">>

RECURSIVE mapAllKeyboard(_, _)
mapAllKeyboard(s, i) ==
  IF i > Len(XINPUT_GAMEPAD) THEN s
  ELSE LET b == XINPUT_GAMEPAD[i]
       IN mapAllKeyboard(IF s.cfg.GAMEPAD[b] # <<>>
                         THEN mapKeyboard(s, {b}, s.cfg.GAMEPAD[b]) ELSE s,
                         i + 1)

\* mutant: stays on the last entry
NextSpeedIdxSaturating(idx, size) == IF idx + 1 >= size THEN idx ELSE idx + 1

\* speed_idx++, back to 0 past the end of the table (speeds[i] of the
\* vector is speeds[i + 1] of the sequence)
NextSpeedIdx(idx, size) == IF idx + 1 >= size THEN 0 ELSE idx + 1

changeSpeed(s) ==
  LET t == setXboxClickState(s, s.cfg.CONFIG_SPEED_CHANGE)
  IN IF t._xboxClickIsDown[s.cfg.CONFIG_SPEED_CHANGE]
     THEN LET idx == NextSpeedIdx(t.speed_idx, Len(t.cfg.speeds))
          IN pulseVibrate([t EXCEPT !.speed_idx = idx, !.speed = t.cfg.speeds[idx + 1]],
                          450, 65000, 65000)
     ELSE t

hideConsole(s) ==
  IF s.cfg.CONFIG_HIDE # {}
  THEN LET t == setXboxClickState(s, s.cfg.CONFIG_HIDE)
       IN IF t._xboxClickIsDown[s.cfg.CONFIG_HIDE] THEN toggleWindowVisibility(t) ELSE t
  ELSE s

\* osk: what getOskWindow and IsIconic find
toggleOsk(s, osk) ==
  IF s.cfg.CONFIG_OSK # {}
  THEN LET t == setXboxClickState(s, s.cfg.CONFIG_OSK)
       IN IF t._xboxClickIsDown[s.cfg.CONFIG_OSK]
          THEN CASE osk = "NULL" -> Emit(t, "printf", <<>>)
                 [] osk = "iconic" -> Emit(t, "ShowWindowOsk", <<9>>)
                 [] OTHER -> Emit(t, "ShowWindowOsk", <<6>>)
          ELSE t
  ELSE s

mapMouseButtons(s) ==
  LET l == IF s.cfg.CONFIG_MOUSE_LEFT # {}
           THEN mapMouseClick(s, s.cfg.CONFIG_MOUSE_LEFT, "LEFTDOWN", "LEFTUP") ELSE s
      r == IF s.cfg.CONFIG_MOUSE_RIGHT # {}
           THEN mapMouseClick(l, s.cfg.CONFIG_MOUSE_RIGHT, "RIGHTDOWN", "RIGHTUP") ELSE l
  IN IF s.cfg.CONFIG_MOUSE_MIDDLE # {}
     THEN mapMouseClick(r, s.cfg.CONFIG_MOUSE_MIDDLE, "MIDDLEDOWN", "MIDDLEUP") ELSE r

\* what loop() does after the disable test
enabledTick(s, cursor, osk) ==
  LET v == handleVibrationButton(s)
      m == handleScrolling(handleMouseMovement(v, cursor))
      c == toggleOsk(hideConsole(mapMouseButtons(m)), osk)
      k == handleTriggers(changeSpeed(c), s.cfg.GAMEPAD_TRIGGER_LEFT,
                          s.cfg.GAMEPAD_TRIGGER_RIGHT)
  IN mapAllKeyboard(k, 1)

\* mutant: no return after the disable test
loopWithoutReturn(s, cursor, osk) == enabledTick(handleDisableButton(s), cursor, osk)

loop(s, cursor, osk) ==
  LET d == handleDisableButton(s)
  IN IF d._disabled THEN d ELSE enabledTick(d, cursor, osk)

----------------------------------------------------------------------------
(* loadConfigFile: the variable cursor speeds.  CURSOR_SPEED is modelled as  *)
(* its comma-separated entries, each with the name before its '=' if it has *)
(* one and the value strtof reads after it, in 1/SPEED_UNIT.                *)

Unnamed(value) == [hasName |-> FALSE, name |-> "", value |-> value]
Named(name, value) == [hasName |-> TRUE, name |-> name, value |-> value]

\* 0.0001f and 1.0f
CUR_SPEED_MIN == SPEED_UNIT \div 10000
CUR_SPEED_MAX == SPEED_UNIT

\* mutant: the lower end of the range is allowed
SpeedInRangeInclusive(cur_speedf) ==
  cur_speedf >= CUR_SPEED_MIN /\ cur_speedf <= CUR_SPEED_MAX

\* cur_speedf > CUR_SPEED_MIN && cur_speedf <= CUR_SPEED_MAX
SpeedInRange(cur_speedf) == cur_speedf > CUR_SPEED_MIN /\ cur_speedf <= CUR_SPEED_MAX

\* the for loop over the entries; an entry without a name takes the next
\* number as its name, whether or not its speed is kept
RECURSIVE ParseSpeeds(_, _, _)
ParseSpeeds(entries, cur_speed_idx, table) ==
  IF entries = <<>> THEN table
  ELSE LET entry == Head(entries)
           cur_name == IF entry.hasName THEN entry.name ELSE ToString(cur_speed_idx)
           idx == IF entry.hasName THEN cur_speed_idx ELSE cur_speed_idx + 1
       IN ParseSpeeds(Tail(entries), idx,
                      IF SpeedInRange(entry.value)
                      THEN [speeds |-> Append(table.speeds, entry.value),
                            speed_names |-> Append(table.speed_names, cur_name)]
                      ELSE table)

\* 0.005f, 0.015f, 0.025f, 0.004f
DefaultSpeeds ==
  [speeds |-> <<(5 * SPEED_UNIT) \div 1000, (15 * SPEED_UNIT) \div 1000,
                (25 * SPEED_UNIT) \div 1000, (4 * SPEED_UNIT) \div 1000>>,
   speed_names |-> <<"ULTRALOW", "LOW", "MED", "HIGH">>]

\* speeds and speed_names as loadConfigFile leaves them
SpeedTable(entries) ==
  LET table == ParseSpeeds(entries, 1, [speeds |-> <<>>, speed_names |-> <<>>])
  IN IF Len(table.speeds) = 0 THEN DefaultSpeeds ELSE table

\* a key that is not in the file reads as the one value "0"
MissingKey == <<Unnamed(0)>>

WithSpeeds(c, entries) ==
  [c EXCEPT !.CURSOR_SPEED = entries,
            !.speeds = SpeedTable(entries).speeds,
            !.speed_names = SpeedTable(entries).speed_names]

----------------------------------------------------------------------------
(* Configurations, as loadConfigFile leaves them *)

NoKeys == [b \in SeqToSet(XINPUT_GAMEPAD) |-> <<>>]

\* every binding absent except the dead zones, scroll speed and speed table,
\* which fall back to their defaults
BaseConfig ==
  [CONFIG_MOUSE_LEFT |-> {}, CONFIG_MOUSE_RIGHT |-> {}, CONFIG_MOUSE_MIDDLE |-> {},
   CONFIG_HIDE |-> {}, CONFIG_DISABLE |-> {}, CONFIG_DISABLE_VIBRATION |-> {},
   CONFIG_SPEED_CHANGE |-> {}, CONFIG_OSK |-> {},
   GAMEPAD |-> NoKeys,
   GAMEPAD_TRIGGER_LEFT |-> <<0>>, GAMEPAD_TRIGGER_RIGHT |-> <<0>>,
   acceleration_factor |-> 0,
   DEAD_ZONE |-> 6000, SCROLL_DEAD_ZONE |-> 5000, SCROLL_SPEED |-> 1000,
   CURSOR_SPEED |-> MissingKey,
   speeds |-> SpeedTable(MissingKey).speeds,
   speed_names |-> SpeedTable(MissingKey).speed_names,
   SWAP_THUMBSTICKS |-> 0]

\* the command buttons of the stock configuration: two-button chords
Commands ==
  [BaseConfig EXCEPT !.CONFIG_DISABLE = {"BACK"},
                     !.CONFIG_DISABLE_VIBRATION = {"DPAD_UP", "DPAD_DOWN"},
                     !.CONFIG_SPEED_CHANGE = {"LEFT_SHOULDER", "RIGHT_SHOULDER"}]

\* left mouse button on A, two keys on B
ConfigMouseKeys ==
  [Commands EXCEPT !.CONFIG_MOUSE_LEFT = {"A"},
                   !.GAMEPAD = [NoKeys EXCEPT !["B"] = <<13, 27>>]]

\* one code bound to two buttons
ConfigSharedKey ==
  [Commands EXCEPT !.GAMEPAD = [NoKeys EXCEPT !["B"] = <<13, 27>>, !["X"] = <<13>>]]

\* keys on both triggers, the left one shared with a button
ConfigTriggers ==
  [Commands EXCEPT !.GAMEPAD_TRIGGER_LEFT = <<32>>,
                   !.GAMEPAD_TRIGGER_RIGHT = <<33>>,
                   !.GAMEPAD = [NoKeys EXCEPT !["B"] = <<32>>]]

\* speed change within reach, a table of three speeds
ConfigSpeed ==
  WithSpeeds([Commands EXCEPT !.CONFIG_SPEED_CHANGE = {"LEFT_SHOULDER"}],
             <<Unnamed(50), Unnamed(150), Unnamed(250)>>)

\* the vibration toggle within reach
ConfigVibration == [Commands EXCEPT !.CONFIG_DISABLE_VIBRATION = {"DPAD_UP"}]

\* the vibration toggle and the speed change within reach
ConfigVibrationSpeed ==
  [Commands EXCEPT !.CONFIG_DISABLE_VIBRATION = {"DPAD_UP"},
                   !.CONFIG_SPEED_CHANGE = {"LEFT_SHOULDER"}]

\* disable on the chord START + BACK, a key on START
ConfigChord ==
  [Commands EXCEPT !.CONFIG_DISABLE = {"START", "BACK"},
                   !.CONFIG_HIDE = {"BACK"},
                   !.GAMEPAD = [NoKeys EXCEPT !["START"] = <<91>>]]

\* one button bound twice: A is the left mouse button and a key
ConfigDoubleBound ==
  [Commands EXCEPT !.CONFIG_MOUSE_LEFT = {"A"},
                   !.GAMEPAD = [NoKeys EXCEPT !["A"] = <<65>>]]

\* both sticks in use
ConfigSticks == Commands

\* a fast cursor, so that a displacement shows at 1/PX pixel
ConfigMotion == WithSpeeds(Commands, <<Unnamed(1000), Unnamed(50)>>)

\* the sticks swapped, a quadratic curve, other dead zones
ConfigMotionSwapped ==
  [ConfigMotion EXCEPT !.SWAP_THUMBSTICKS = 1, !.acceleration_factor = 2,
                       !.DEAD_ZONE = 5000, !.SCROLL_DEAD_ZONE = 6000]

(* The domains the snapshots are drawn from *)

Origin == <<0, 0>>

BaseEnv ==
  [Bits |-> {}, Triggers |-> {<<0, 0>>}, SticksL |-> {Origin}, SticksR |-> {Origin},
   Cursors |-> {<<100, 100>>}, Osk |-> {"NULL"}, Overflow |-> {"wrap"}]

EnvMouseKeys == [BaseEnv EXCEPT !.Bits = {"A", "B", "BACK"}]

EnvSharedKey == [BaseEnv EXCEPT !.Bits = {"B", "X", "BACK"}]

EnvTriggers ==
  [BaseEnv EXCEPT !.Bits = {"B", "BACK"},
                  !.Triggers = {<<0, 0>>, <<255, 0>>, <<0, 255>>, <<1, 255>>}]

EnvSpeed == [BaseEnv EXCEPT !.Bits = {"BACK", "LEFT_SHOULDER"}]

EnvVibration == [BaseEnv EXCEPT !.Bits = {"BACK", "DPAD_UP"}]

EnvVibrationSpeed == [BaseEnv EXCEPT !.Bits = {"DPAD_UP", "LEFT_SHOULDER"}]

EnvChord == [BaseEnv EXCEPT !.Bits = {"START", "BACK"}]

EnvDoubleBound == [BaseEnv EXCEPT !.Bits = {"A", "BACK"}]

EnvSticks ==
  [BaseEnv EXCEPT !.Bits = {"BACK"},
                  !.SticksL = {Origin, <<3000, 4000>>, <<32767, 0>>},
                  !.SticksR = {Origin, <<0, 32767>>}]

\* nothing bound at all: every command mask is 0
EnvUnbound == [BaseEnv EXCEPT !.Triggers = {<<0, 0>>, <<255, 0>>}]

Setups ==
  {<<ConfigMouseKeys, EnvMouseKeys>>, <<ConfigSharedKey, EnvSharedKey>>,
   <<ConfigTriggers, EnvTriggers>>, <<ConfigSpeed, EnvSpeed>>,
   <<ConfigVibration, EnvVibration>>, <<ConfigVibrationSpeed, EnvVibrationSpeed>>,
   <<ConfigChord, EnvChord>>, <<ConfigDoubleBound, EnvDoubleBound>>,
   <<ConfigSticks, EnvSticks>>,
   <<BaseConfig, EnvUnbound>>}

\* stick vectors inside, on and outside a dead zone of 6000 (left) and of
\* 5000 (right), up to full deflection on both axes; the cursor is read at
\* the origin of the screen, where a move up or left goes negative
EnvMotion ==
  [BaseEnv EXCEPT
     !.SticksL = {Origin, <<3000, 4000>>, <<3600, 4800>>, <<6000, 0>>, <<6001, 0>>,
                  <<6000, 1>>, <<0, -6100>>, <<-4300, -4300>>, <<32767, 32767>>,
                  <<-32768, 0>>, <<-32768, -32768>>},
     !.SticksR = {Origin, <<3000, 4000>>, <<-5000, 0>>, <<5100, 0>>, <<3000, 4100>>,
                  <<-4000, -4000>>, <<0, 32767>>},
     !.Cursors = {<<0, 0>>},
     !.Overflow = {"wrap", "exact"}]

MotionSetups == {<<ConfigMotion, EnvMotion>>, <<ConfigMotionSwapped, EnvMotion>>}

\* the entries a CURSOR_SPEED line is made of: the lower end of the range,
\* a value inside it, the upper end under a name, a value above it
SpeedEntries == {Unnamed(CUR_SPEED_MIN), Unnamed(50), Named("FAST", CUR_SPEED_MAX),
                 Unnamed(CUR_SPEED_MAX + 1)}

RECURSIVE SeqsUpTo(_, _)
\* the sequences over S of length at most n
SeqsUpTo(S, n) ==
  IF n = 0 THEN {<<>>}
  ELSE LET shorter == SeqsUpTo(S, n - 1)
       IN shorter \cup {Append(q, x) : q \in shorter, x \in S}

EnvConfig == [BaseEnv EXCEPT !.Bits = {"LEFT_SHOULDER"}]

\* every CURSOR_SPEED line of up to MaxSpeeds entries, the speed change in reach
ConfigSetups ==
  {<<WithSpeeds(ConfigSpeed, entries), EnvConfig>> : entries \in SeqsUpTo(SpeedEntries, MaxSpeeds)}

Snapshots(e) ==
  {[wButtons |-> w, bLeftTrigger |-> t[1], bRightTrigger |-> t[2],
    sThumbLX |-> l[1], sThumbLY |-> l[2], sThumbRX |-> r[1], sThumbRY |-> r[2]] :
     w \in SUBSET e.Bits, t \in e.Triggers, l \in e.SticksL, r \in e.SticksR}

----------------------------------------------------------------------------
(* The state machine *)

State ==
  [cfg |-> cfg, _currentState |-> _currentState,
   _disabled |-> _disabled, _vibrationDisabled |-> _vibrationDisabled,
   _hidden |-> _hidden,
   _lTriggerPrevious |-> _lTriggerPrevious, _rTriggerPrevious |-> _rTriggerPrevious,
   _xboxClickIsDown |-> _xboxClickIsDown, _xboxClickIsUp |-> _xboxClickIsUp,
   _xboxClickIsDownLong |-> _xboxClickIsDownLong,
   _xboxClickDownLength |-> _xboxClickDownLength,
   _xboxClickStateLastIteration |-> _xboxClickStateLastIteration,
   _pressedKeys |-> _pressedKeys, speed_idx |-> speed_idx, speed |-> speed,
   _xRest |-> _xRest, _yRest |-> _yRest,
   events |-> events, motion |-> motion, calls |-> calls, held |-> held, obs |-> obs,
   moves |-> moves, trig |-> trig,
   overflow |-> "wrap"]

InitWith(setups) ==
  /\ \E su \in setups : cfg = su[1] /\ env = su[2]
  /\ _currentState = [wButtons |-> {}, bLeftTrigger |-> 0, bRightTrigger |-> 0,
                      sThumbLX |-> 0, sThumbLY |-> 0, sThumbRX |-> 0, sThumbRY |-> 0]
  /\ _disabled = FALSE
  /\ _vibrationDisabled = FALSE
  /\ _hidden = FALSE
  /\ _lTriggerPrevious = FALSE
  /\ _rTriggerPrevious = FALSE
  /\ _xboxClickIsDown = EmptyMap
  /\ _xboxClickIsUp = EmptyMap
  /\ _xboxClickIsDownLong = EmptyMap
  /\ _xboxClickDownLength = EmptyMap
  /\ _xboxClickStateLastIteration = EmptyMap
  /\ _pressedKeys = <<>>
  /\ speed_idx = 0
  /\ speed = cfg.speeds[1]
  /\ _xRest = 0
  /\ _yRest = 0
  /\ events = <<>>
  /\ motion = <<0, 0>>
  /\ calls = <<>>
  /\ held = EmptyMap
  /\ obs = EmptyMap
  /\ moves = <<>>
  /\ trig = [down |-> <<FALSE, FALSE>>, emitted |-> <<>>]

Init == InitWith(Setups)

\* one call of loop(): GetState, then the handlers.  overflow is what the
\* build makes of a signed overflow in tx * tx + ty * ty.
Loop(snapshot, cursor, osk, overflow) ==
  \E s \in {loop([State EXCEPT !._currentState = snapshot, !.events = <<>>,
                                !.motion = <<0, 0>>, !.calls = <<>>,
                                !.moves = <<>>, !.trig.emitted = <<>>,
                                !.overflow = overflow],
                  cursor, osk)} :
     /\ \A b \in DOMAIN s._xboxClickDownLength : s._xboxClickDownLength[b] <= MaxHold
     /\ _currentState' = s._currentState
     /\ _disabled' = s._disabled
     /\ _vibrationDisabled' = s._vibrationDisabled
     /\ _hidden' = s._hidden
     /\ _lTriggerPrevious' = s._lTriggerPrevious
     /\ _rTriggerPrevious' = s._rTriggerPrevious
     /\ _xboxClickIsDown' = s._xboxClickIsDown
     /\ _xboxClickIsUp' = s._xboxClickIsUp
     /\ _xboxClickIsDownLong' = s._xboxClickIsDownLong
     /\ _xboxClickDownLength' = s._xboxClickDownLength
     /\ _xboxClickStateLastIteration' = s._xboxClickStateLastIteration
     /\ _pressedKeys' = s._pressedKeys
     /\ speed_idx' = s.speed_idx
     /\ speed' = s.speed
     /\ _xRest' = s._xRest
     /\ _yRest' = s._yRest
     /\ events' = s.events
     /\ motion' = s.motion
     /\ calls' = s.calls
     /\ held' = s.held
     /\ obs' = s.obs
     /\ moves' = s.moves
     /\ trig' = s.trig
     /\ UNCHANGED <<cfg, env>>

\* the outcomes of tx * tx + ty * ty: one where the sum fits an int
Outcomes(e, snapshot) ==
  IF \/ snapshot.sThumbLX * snapshot.sThumbLX > MaxInt32 - snapshot.sThumbLY * snapshot.sThumbLY
     \/ snapshot.sThumbRX * snapshot.sThumbRX > MaxInt32 - snapshot.sThumbRY * snapshot.sThumbRY
  THEN e.Overflow
  ELSE {"wrap"}

Next ==
  \E snapshot \in Snapshots(env), cursor \in env.Cursors, osk \in env.Osk :
    \E overflow \in Outcomes(env, snapshot) :
      Loop(snapshot, cursor, osk, overflow)

Spec == Init /\ [][Next]_vars

\* the loop under every configured speed table
InitConfig == InitWith(ConfigSetups)

SpecConfig == InitConfig /\ [][Next]_vars

\* the loop driven through the dead zones of both sticks
InitMotion == InitWith(MotionSetups)

SpecMotion == InitMotion /\ [][Next]_vars

----------------------------------------------------------------------------
(* Properties *)

MouseUps == {"LEFTUP", "RIGHTUP", "MIDDLEUP"}
MouseDowns == {"LEFTDOWN", "RIGHTDOWN", "MIDDLEDOWN"}
MouseCodes == {VK_LBUTTON, VK_RBUTTON, VK_MBUTTON}

IsMouseCode(c) == c \in MouseCodes
IsKeyboardCode(c) == c \notin MouseCodes

Ops(evs) == {evs[i].op : i \in 1..Len(evs)}

\* C1: once the toggle has gone to Disabled no synthesized input is held:
\* every key-down and mouse-button-down emitted so far has been matched by
\* an up event for the same code.
C1_NothingHeldWhileDisabled == _disabled => held = EmptyMap

\* C2: a code is in _pressedKeys exactly as many times as down events for it
\* have not been matched by an up event.
C2_PressedKeysAreTheHeldCodes == BagOfSeq(_pressedKeys) = held

RECURSIVE Filter(_, _)
\* the entries of q that are mouse codes (mouse = TRUE) or keyboard codes
Filter(q, mouse) ==
  IF q = <<>> THEN <<>>
  ELSE (IF IsMouseCode(Head(q)) = mouse THEN <<Head(q)>> ELSE <<>>) \o Filter(Tail(q), mouse)

RECURSIVE KeyUpCodes(_)
\* the codes of the key-up calls of evs, in order
KeyUpCodes(evs) ==
  IF evs = <<>> THEN <<>>
  ELSE (IF Head(evs).op = "KEYUP" THEN Head(evs).arg ELSE <<>>) \o KeyUpCodes(Tail(evs))

RECURSIVE MouseUpCodes(_)
\* the codes of the mouse-up events of evs, in order
MouseUpCodes(evs) ==
  IF evs = <<>> THEN <<>>
  ELSE MouseUpCode(Head(evs).op) \o MouseUpCodes(Tail(evs))

RECURSIVE CountOp(_, _)
CountOp(evs, op) ==
  IF evs = <<>> THEN 0
  ELSE (IF Head(evs).op = op THEN 1 ELSE 0) + CountOp(Tail(evs), op)

\* this step is a tick on which the toggle goes Enabled -> Disabled
EntersDisabled == ~_disabled /\ _disabled'

\* C3: the drain on entry to Disabled empties _pressedKeys and emits one up
\* event per code occurrence that was in it, a mouse-up for each mouse code
\* and a key-up for each other code, and no up event for any other code.
C3_DrainReleasesExactlyThePressedKeys ==
  [][EntersDisabled =>
       /\ _pressedKeys' = <<>>
       /\ BagOfSeq(MouseUpCodes(events')) = BagOfSeq(Filter(_pressedKeys, TRUE))
       /\ BagOfSeq(KeyUpCodes(events')) = BagOfSeq(Filter(_pressedKeys, FALSE))]_vars

\* a drain that released keyboard keys and a mouse button
C3_Witness ==
  /\ _disabled
  /\ "KEYUP" \in Ops(events)
  /\ "LEFTUP" \in Ops(events)
  /\ _pressedKeys = <<>>

\* C4: the drain makes one key-up call if a keyboard code is held and none
\* otherwise, that call covers every held keyboard code, and every held mouse
\* button gets a mouse-up event of its own.
C4_DrainBatchesTheKeyUps ==
  [][EntersDisabled =>
       /\ CountOp(events', "KEYUP") = IF Filter(_pressedKeys, FALSE) = <<>> THEN 0 ELSE 1
       /\ \A c \in SeqToSet(Filter(_pressedKeys, FALSE)) :
            \E i \in 1..Len(events') :
              events'[i].op = "KEYUP" /\ c \in SeqToSet(events'[i].arg)
       /\ CountOp(events', "LEFTUP") + CountOp(events', "RIGHTUP")
            + CountOp(events', "MIDDLEUP") = Len(Filter(_pressedKeys, TRUE))]_vars

\* two keyboard keys and the left mouse button released by one drain
C4_Witness ==
  /\ _disabled
  /\ \E i \in 1..Len(events) : events[i].op = "KEYUP" /\ Len(events[i].arg) = 2
  /\ CountOp(events, "KEYUP") = 1
  /\ CountOp(events, "LEFTUP") = 1

\* C5: on every observation of a button, isDown is set exactly when the
\* button is down and was up at its previous observation (a button never
\* observed counts as up), isUp exactly when it is up and was down.
C5_EdgesAreOneShot ==
  \A i \in 1..Len(calls) :
    /\ calls[i].IsDown = (calls[i].raw /\ ~calls[i].prev)
    /\ calls[i].IsUp = (~calls[i].raw /\ calls[i].prev)

\* a button still down on the observation after its press: isDown is off again
C5_Witness ==
  \E i \in 1..Len(calls) : calls[i].raw /\ calls[i].prev /\ ~calls[i].IsDown

\* C6: on every observation, isHeldLong is set exactly when the button has
\* been down for ticksHeld observations in a row with
\* ticksHeld * tickIntervalMs > thresholdMs; at equality it is not yet long.
C6_LongPressIsStrict ==
  \A i \in 1..Len(calls) :
    /\ calls[i].IsDownLong = (calls[i].ticksHeld * SLEEP_AMOUNT > LONG_PRESS_TIME)
    /\ calls[i].ticksHeld * SLEEP_AMOUNT = LONG_PRESS_TIME => ~calls[i].IsDownLong

\* a button held past the threshold
C6_Witness ==
  \E i \in 1..Len(calls) :
    calls[i].IsDownLong /\ calls[i].ticksHeld * SLEEP_AMOUNT > LONG_PRESS_TIME

\* the state of the edge tracker for button b
Edge(b, isDown, isUp, long, len, last) ==
  <<b \in DOMAIN last, Get(isDown, b, FALSE), Get(isUp, b, FALSE),
    Get(long, b, FALSE), Get(len, b, 0), Get(last, b, FALSE)>>

\* a press of the disable button on this tick: down now, up (or never seen)
\* on the tick before
DisablePressed ==
  /\ cfg.CONFIG_DISABLE \subseteq _currentState'.wButtons
  /\ ~(cfg.CONFIG_DISABLE \in DOMAIN obs /\ cfg.CONFIG_DISABLE \subseteq _currentState.wButtons)

\* C7: a tick that ends Disabled emits no key-down, mouse-down, cursor or
\* wheel event and leaves trigger state, speed, vibration toggle, remainders
\* and every other button's edge state alone; it observes the disable button,
\* and a press of it while Disabled re-enables on that tick.
C7_DisabledTickOnlyWatchesTheToggle ==
  [][/\ _disabled' =>
          /\ Ops(events') \cap (MouseDowns \cup {"KEYDOWN", "SetCursorPos", "WHEEL", "HWHEEL"}) = {}
          /\ motion' = <<0, 0>>
          /\ UNCHANGED <<_lTriggerPrevious, _rTriggerPrevious, speed_idx, speed,
                         _vibrationDisabled, _hidden, _xRest, _yRest>>
          /\ \A b \in ((DOMAIN _xboxClickStateLastIteration') \cup (DOMAIN _xboxClickIsDown'))
                        \ {cfg.CONFIG_DISABLE} :
               Edge(b, _xboxClickIsDown', _xboxClickIsUp', _xboxClickIsDownLong',
                    _xboxClickDownLength', _xboxClickStateLastIteration')
                 = Edge(b, _xboxClickIsDown, _xboxClickIsUp, _xboxClickIsDownLong,
                        _xboxClickDownLength, _xboxClickStateLastIteration)
          /\ Len(calls') = 1
          /\ calls'[1].button = cfg.CONFIG_DISABLE
     /\ (_disabled /\ DisablePressed) => ~_disabled']_vars

\* a tick that stays Disabled although the stick is deflected
C7_Witness ==
  /\ _disabled
  /\ _currentState.sThumbLX = 32767
  /\ _currentState.sThumbRY = 32767
  /\ events = <<>>

\* C8: _disabled flips on exactly the ticks on which the disable button goes
\* from up to down.
C8_ToggleIsEdgeTriggered ==
  [][(_disabled' # _disabled) <=> DisablePressed]_vars

\* the disable button held over a second tick, the one toggle still standing
C8_Witness ==
  /\ _disabled
  /\ Len(calls) = 1
  /\ calls[1].raw /\ calls[1].prev
  /\ calls[1].ticksHeld = 3

\* a speed-change command on this tick: the tick is enabled and the button
\* is down now and was up (or never seen) at its last observation
SpeedCommand ==
  /\ ~_disabled'
  /\ cfg.CONFIG_SPEED_CHANGE \subseteq _currentState'.wButtons
  /\ Get(obs, cfg.CONFIG_SPEED_CHANGE, 0) = 0

\* C9: speed_idx stays inside the table with speed = speeds[speed_idx], and
\* every speed-change command moves it one on, modulo the table length.
C9_SpeedCyclesInRange ==
  /\ [](speed_idx \in 0..(Len(cfg.speeds) - 1) /\ speed = cfg.speeds[speed_idx + 1])
  /\ [][speed_idx' = IF SpeedCommand THEN (speed_idx + 1) % Len(cfg.speeds)
                                     ELSE speed_idx]_vars

\* a command that wrapped from the last entry of a three-entry table to 0
C9_Witness ==
  /\ speed_idx = 0
  /\ Len(cfg.speeds) = 3
  /\ \E i \in 1..Len(calls) :
       calls[i].button = cfg.CONFIG_SPEED_CHANGE /\ calls[i].IsDown

\* the stick that moves the cursor and the stick that scrolls, as read
CursorStick ==
  IF cfg.SWAP_THUMBSTICKS = 0
  THEN <<_currentState.sThumbLX, _currentState.sThumbLY>>
  ELSE <<_currentState.sThumbRX, _currentState.sThumbRY>>

ScrollStick ==
  IF cfg.SWAP_THUMBSTICKS = 0
  THEN <<_currentState.sThumbRX, _currentState.sThumbRY>>
  ELSE <<_currentState.sThumbLX, _currentState.sThumbLY>>

\* x*x + y*y <= d*d in exact arithmetic (the sum itself can pass 2^31 - 1)
WithinDeadZone(v, d) == v[1] * v[1] <= d * d - v[2] * v[2]

\* C10: a cursor stick vector with x*x + y*y <= d*d gives zero displacement
\* on both axes, and a scroll stick vector at or below the scroll dead zone
\* gives no wheel event.
C10_DeadZoneYieldsZero ==
  /\ WithinDeadZone(CursorStick, cfg.DEAD_ZONE) => motion = <<0, 0>>
  /\ WithinDeadZone(ScrollStick, cfg.SCROLL_DEAD_ZONE)
       => Ops(events) \cap {"WHEEL", "HWHEEL"} = {}

\* stick (3000, 4000) under a dead zone of 6000 on a tick that set the cursor,
\* the scroll stick exactly on its dead zone of 5000
C10_Witness ==
  /\ cfg.DEAD_ZONE = 6000 /\ cfg.SCROLL_DEAD_ZONE = 5000
  /\ CursorStick = <<3000, 4000>>
  /\ ScrollStick = <<3000, 4000>>
  /\ Ops(events) = {"SetCursorPos"}
  /\ motion = <<0, 0>>

\* C11: handleMouseMovement takes the motion branch exactly when the cursor
\* stick vector has x*x + y*y > d*d in exact arithmetic, for every vector of
\* the signed 16-bit range, full diagonal deflection included.
C11_MotionBranchIffOutsideDeadZone ==
  \A i \in 1..Len(moves) :
    moves[i].taken <=> ~WithinDeadZone(CursorStick, cfg.DEAD_ZONE)

\* the events are pulses, each Vibrate(l, r), Sleep, Vibrate(0, 0), among
\* events that do not touch the motors
RECURSIVE WellFormedPulses(_)
WellFormedPulses(evs) ==
  IF evs = <<>> THEN TRUE
  ELSE IF Head(evs).op = "Vibrate"
       THEN /\ Len(evs) >= 3
            /\ Head(evs).arg # <<0, 0>>
            /\ evs[2].op = "Sleep"
            /\ evs[3] = Event("Vibrate", <<0, 0>>)
            /\ WellFormedPulses(SubSeq(evs, 4, Len(evs)))
       ELSE WellFormedPulses(Tail(evs))

\* the tick just made saw a press of the command button on mask: down now,
\* up at its previous observation
CommandPressed(log, i, mask) ==
  i \in 1..Len(log) /\ log[i].button = mask /\ log[i].raw /\ ~log[i].prev

\* C12: a pulse requested while vibration is toggled off sends nothing to the
\* motors and does not sleep; a pulse requested while it is on is set(l, r),
\* sleep, set(0, 0), so the motors are at zero when the tick ends.  The
\* toggle pulse is requested before the vibration button is read, the
\* speed-change pulse after it.
C12_PulsesAreNoOpsWhenVibrationIsOff ==
  [][LET toggleReq == CommandPressed(calls', 1, cfg.CONFIG_DISABLE)
         speedReq == \E i \in 2..Len(calls') :
                        CommandPressed(calls', i, cfg.CONFIG_SPEED_CHANGE)
         pulses == (IF toggleReq /\ ~_vibrationDisabled THEN 1 ELSE 0)
                     + (IF speedReq /\ ~_vibrationDisabled' THEN 1 ELSE 0)
     IN /\ WellFormedPulses(events')
        /\ CountOp(events', "Vibrate") = 2 * pulses
        /\ CountOp(events', "Sleep")
             = pulses + (IF _vibrationDisabled' # _vibrationDisabled THEN 1 ELSE 0)]_vars

\* a speed-change command taken while vibration is off: the speed moved on
\* and nothing reached the motors
C12_Witness ==
  /\ _vibrationDisabled
  /\ \E i \in 2..Len(calls) : CommandPressed(calls, i, cfg.CONFIG_SPEED_CHANGE)
  /\ speed_idx = 1
  /\ Ops(events) \cap {"Vibrate", "Sleep"} = {}

\* the configured values inside (0.0001, 1.0], in configured order
ConfiguredInRange ==
  SelectSeq([i \in 1..Len(cfg.CURSOR_SPEED) |-> cfg.CURSOR_SPEED[i].value],
            LAMBDA v : v * 10000 > SPEED_UNIT /\ v <= SPEED_UNIT)

\* C13: the speed table has at least one entry and as many names as speeds;
\* it is the configured values inside (0.0001, 1.0] in configured order, or,
\* when there is none, the four defaults ULTRALOW, LOW, MED, HIGH.
C13_SpeedTableIsNeverEmpty ==
  /\ Len(cfg.speeds) >= 1
  /\ Len(cfg.speed_names) = Len(cfg.speeds)
  /\ IF ConfiguredInRange # <<>>
     THEN cfg.speeds = ConfiguredInRange
     ELSE /\ cfg.speeds = <<50, 150, 250, 40>>
          /\ cfg.speed_names = <<"ULTRALOW", "LOW", "MED", "HIGH">>

\* three configured entries of which one was dropped, the loop on the second
\* of the two that were kept
C13_Witness ==
  /\ Len(cfg.CURSOR_SPEED) = 3
  /\ Len(cfg.speeds) = 2
  /\ cfg.speed_names = <<"1", "FAST">>
  /\ speed_idx = 1

\* no configured entry is in range: the loop runs on the defaults
C13_WitnessDefaults ==
  /\ Len(cfg.CURSOR_SPEED) = 2
  /\ ConfiguredInRange = <<>>
  /\ Len(cfg.speeds) = 4
  /\ speed_idx = 3

\* the edge tracker records the button on mask as down
RecordedDown(mask) == Get(_xboxClickStateLastIteration, mask, FALSE)

RECURSIVE KeysRecordedDown(_)
\* the codes of the mapped controller buttons, from the i-th on, that the
\* edge tracker records as down
KeysRecordedDown(i) ==
  IF i > Len(XINPUT_GAMEPAD) THEN EmptyMap
  ELSE LET b == XINPUT_GAMEPAD[i]
       IN IF cfg.GAMEPAD[b] # <<>> /\ RecordedDown({b})
          THEN BagAddAll(KeysRecordedDown(i + 1), cfg.GAMEPAD[b])
          ELSE KeysRecordedDown(i + 1)

\* the same with the mapped mouse buttons
CodesRecordedDown ==
  LET code(mask, vk) == IF mask # {} /\ RecordedDown(mask) THEN <<vk>> ELSE <<>>
  IN BagAddAll(KeysRecordedDown(1),
               code(cfg.CONFIG_MOUSE_LEFT, VK_LBUTTON)
                 \o code(cfg.CONFIG_MOUSE_RIGHT, VK_RBUTTON)
                 \o code(cfg.CONFIG_MOUSE_MIDDLE, VK_MBUTTON))

\* some mapped button is recorded as down with a code of its missing from
\* _pressedKeys, or as up with its code in it
TrackerAndPressedKeysDisagree == BagOfSeq(_pressedKeys) # CodesRecordedDown

\* C14: _pressedKeys and the edge tracker do not disagree about a mapped
\* button on two ticks in a row, through Disabled and back as well.
C14_TrackerAndPressedKeysAgree ==
  [][~(TrackerAndPressedKeysDisagree /\ TrackerAndPressedKeysDisagree')]_vars

\* C15: one tick observes a button at most once, whatever is bound to it, so
\* that every function bound to the button sees its edge.
C15_OneObservationPerButtonPerTick ==
  \A i, j \in 1..Len(calls) : calls[i].button = calls[j].button => i = j

\* what one trigger has to emit on a tick that evaluates it
ExpectedTriggerEvents(side, downNow, downBefore, key) ==
  IF downNow = downBefore THEN <<>>
  ELSE <<<<side, IF downNow THEN "KEYDOWN" ELSE "KEYUP", key>>>>

\* C16: on an enabled tick each trigger, down meaning a magnitude above
\* TRIGGER_DEAD_ZONE, emits its key-down exactly when it is down and was up
\* on the last tick that evaluated it, its key-up exactly when it is up and
\* was down, and nothing otherwise, whatever the other trigger does; a
\* Disabled tick evaluates and emits nothing.
C16_TriggerEdges ==
  [][IF _disabled'
     THEN trig' = [down |-> trig.down, emitted |-> <<>>]
     ELSE /\ trig'.emitted =
               ExpectedTriggerEvents("L", _currentState'.bLeftTrigger > TRIGGER_DEAD_ZONE,
                                     trig.down[1], cfg.GAMEPAD_TRIGGER_LEFT)
               \o ExpectedTriggerEvents("R", _currentState'.bRightTrigger > TRIGGER_DEAD_ZONE,
                                        trig.down[2], cfg.GAMEPAD_TRIGGER_RIGHT)
          /\ \A i \in 1..Len(trig'.emitted) :
               \E j \in 1..Len(events') :
                 events'[j] = Event(trig'.emitted[i][2], trig'.emitted[i][3])
          /\ _lTriggerPrevious' = (_currentState'.bLeftTrigger > TRIGGER_DEAD_ZONE)
          /\ _rTriggerPrevious' = (_currentState'.bRightTrigger > TRIGGER_DEAD_ZONE)]_vars

\* the right trigger pressed while the left one is held: only the right
\* key-down is emitted
C16_Witness ==
  /\ trig.down = <<TRUE, TRUE>>
  /\ _currentState.bLeftTrigger = 1
  /\ trig.emitted = <<<<"R", "KEYDOWN", <<33>>>>>>

RECURSIVE UpCodes(_)
\* the codes released by evs, key-ups and mouse-ups alike, in the order in
\* which they reach the sink
UpCodes(evs) ==
  IF evs = <<>> THEN <<>>
  ELSE (IF Head(evs).op = "KEYUP" THEN Head(evs).arg ELSE MouseUpCode(Head(evs).op))
         \o UpCodes(Tail(evs))

\* C17: the drain on entry to Disabled releases the codes in the order in
\* which they were inserted into _pressedKeys, mouse and keyboard codes mixed.
C17_DrainKeepsInsertionOrder ==
  [][EntersDisabled => UpCodes(events') = _pressedKeys]_vars

\* C17, amended: the drain releases the mouse codes first, in the order in
\* which they were inserted into _pressedKeys, and then the keyboard codes,
\* in the order in which they were inserted.
C17_DrainKeepsInsertionOrderPerKind ==
  [][EntersDisabled =>
       UpCodes(events') = Filter(_pressedKeys, TRUE) \o Filter(_pressedKeys, FALSE)]_vars

\* a drain of the left mouse button and two keys: the mouse-up, then the
\* two key codes as they were pressed
C17_Witness ==
  /\ _disabled
  /\ _pressedKeys = <<>>
  /\ UpCodes(events) = <<VK_LBUTTON, 13, 27>>

\* C18: after each handleMouseMovement the position set plus the new
\* remainder is the position read plus the old remainder plus the tick's
\* displacement (dy counted upwards), and each remainder stays below one
\* pixel in absolute value.  Positions are in 1/PX pixel.
C18_RemainderCarriesTheFraction ==
  [][\A i \in 1..Len(moves') :
       /\ moves'[i].set[1] * PX + _xRest' = moves'[i].cursor[1] * PX + _xRest + motion'[1]
       /\ moves'[i].set[2] * PX + _yRest' = moves'[i].cursor[2] * PX + _yRest - motion'[2]
       /\ Abs(_xRest') < PX
       /\ Abs(_yRest') < PX]_vars

\* a move right and up from the origin of the screen that leaves a fraction
\* on both axes, the one of y below zero
C18_Witness ==
  /\ Len(moves) = 1
  /\ motion[1] > 0 /\ motion[2] > 0
  /\ _xRest > 0
  /\ _yRest < 0
  /\ moves[1].set[2] < 0

\* amount does not point against the stick axis t, and is zero when t is
FollowsAxis(amount, t) ==
  /\ t = 0 => amount = 0
  /\ t > 0 => amount >= 0
  /\ t < 0 => amount <= 0

\* the cursor displacement never points against its stick axis
CursorFollowsTheStick ==
  FollowsAxis(motion[1], CursorStick[1]) /\ FollowsAxis(motion[2], CursorStick[2])

\* C19: the multiplier is never negative outside the dead zone: a wheel
\* amount that is emitted has the sign of its axis of the scroll stick, and
\* the cursor displacement the sign of its axis of the cursor stick.
C19_MotionFollowsTheStick ==
  /\ \A i \in 1..Len(events) :
       /\ events[i].op = "HWHEEL" => FollowsAxis(events[i].arg[1], ScrollStick[1])
       /\ events[i].op = "WHEEL" => FollowsAxis(events[i].arg[1], ScrollStick[2])
  /\ CursorFollowsTheStick

\* C20: a command whose binding is missing from the configuration, so that
\* its mask is 0, never fires: without CONFIG_DISABLE the loop is never
\* Disabled, without CONFIG_DISABLE_VIBRATION vibration is never toggled off,
\* without CONFIG_SPEED_CHANGE the speed stays on the first entry.
C20_MissingCommandNeverFires ==
  /\ cfg.CONFIG_DISABLE = {} => ~_disabled
  /\ cfg.CONFIG_DISABLE_VIBRATION = {} => ~_vibrationDisabled
  /\ cfg.CONFIG_SPEED_CHANGE = {} => speed_idx = 0

\* the codes an event presses and the codes it releases
DownCodesOf(ev) == IF ev.op = "KEYDOWN" THEN ev.arg ELSE MouseDownCode(ev.op)
UpCodesOf(ev) == IF ev.op = "KEYUP" THEN ev.arg ELSE MouseUpCode(ev.op)

RECURSIVE EachIsHeld(_, _)
\* every code of q, taken in turn out of bag, is in it
EachIsHeld(bag, q) ==
  IF q = <<>> THEN TRUE
  ELSE Get(bag, Head(q), 0) >= 1 /\ EachIsHeld(BagRemove(bag, Head(q)), Tail(q))

RECURSIVE AllUpsMatched(_, _)
\* starting from the unmatched downs in bag, every up event of evs releases
\* codes that a down event not yet matched has pressed
AllUpsMatched(bag, evs) ==
  IF evs = <<>> THEN TRUE
  ELSE /\ EachIsHeld(bag, UpCodesOf(Head(evs)))
       /\ AllUpsMatched(BagRemoveAll(BagAddAll(bag, DownCodesOf(Head(evs))),
                                     UpCodesOf(Head(evs))),
                        Tail(evs))

\* C21: every key-up or mouse-up the loop emits for a code comes after a
\* down event for that code that no earlier up event, the drain's included,
\* has matched; also when a button or trigger is held or released across a
\* Disabled period.
C21_NoUnmatchedUpEvents ==
  [][AllUpsMatched(held, events')]_vars

\* the flags of one button: isDown, isUp, isHeldLong and whether the button
\* is recorded as down
FlagsConsistent(isDown, isUp, long, last) ==
  /\ ~(isDown /\ isUp)
  /\ isDown => last
  /\ isUp => ~last
  /\ long => last
  /\ isUp => ~long

\* C22: after every setXboxClickState call isDown and isUp are not both
\* set, isDown goes with the button recorded as down and isUp with it
\* recorded as up, isHeldLong only with it recorded as down and never on the
\* observation that reports isUp.  Stated of every call of the tick and of
\* the flags as the tick leaves them.
C22_EdgeFlagsAreConsistent ==
  /\ \A i \in 1..Len(calls) :
       FlagsConsistent(calls[i].IsDown, calls[i].IsUp, calls[i].IsDownLong, calls[i].last)
  /\ \A b \in DOMAIN _xboxClickStateLastIteration :
       FlagsConsistent(_xboxClickIsDown[b], _xboxClickIsUp[b],
                       Get(_xboxClickIsDownLong, b, FALSE),
                       _xboxClickStateLastIteration[b])

\* the release of a button that had been held long: isUp without isHeldLong
C22_Witness ==
  \E i \in 1..Len(calls) :
    /\ calls[i].IsUp /\ ~calls[i].IsDownLong /\ ~calls[i].last
    /\ IsLongPress(Get(_xboxClickDownLength, calls[i].button, 0))

====
